---- MODULE Spec2Model ----
(***************************************************************************)
(* TaskWeaver-AI scheduling core (src/core/processor.py, src/core/models.py) *)
(*                                                                         *)
(* A date is an integer: the number of days since 2024-01-01, a Monday, so *)
(* that date.weekday() is d % 7 (0 = Monday .. 6 = Sunday).  An Optional   *)
(* field is a sequence: <<>> is Python's None and <<v>> is the value v.    *)
(***************************************************************************)
EXTENDS Integers, Sequences, FiniteSets, TLC

VARIABLES
    project_plan,     \* the ProjectPlan shared by every CoreProcessor built on it
    in_degree,        \* self.in_degree of the caller's CoreProcessor
    temp_in_degree,   \* in_degree of validate_plan's temp_processor (<<>> when none)
    pc,               \* "idle", or the operation whose scheduling loop is running
    queue,            \* the deque of the running calculate_dates
    processed_tasks,  \* the processed set of the running calculate_dates
    popped,           \* the ids dated by the running (or last) loop, in order
    errors,           \* validate_plan's diagnostic list
    result,           \* the outcome of the last finished operation
    pre,              \* what the last operation was called on: the plan as it
                      \* was, whether the in-degree map was as built (fresh) and
                      \* whether the plan was the output of a successful run
    today,            \* date.today()
    calls,            \* number of operations called so far
    critical,         \* the outcome of the last get_critical_path
    cal,              \* the calendar functions' inputs and outputs
    built,            \* a model object built or assigned to: input and outcome
    stats             \* the outcome of the last get_project_statistics

vars == << project_plan, in_degree, temp_in_degree, pc, queue, processed_tasks,
           popped, errors, result, pre, today, calls, critical, cal, built, stats >>

-----------------------------------------------------------------------------
(* Optional values *)

None == << >>
Some(v) == << v >>
Val(o) == o[1]

(* Python's max / min over two dates *)
Max2(a, b) == IF a > b THEN a ELSE b
Min2(a, b) == IF a < b THEN a ELSE b

RECURSIVE SetMax(_)
SetMax(S) == LET x == CHOOSE x \in S : TRUE IN
             IF S = {x} THEN x ELSE Max2(x, SetMax(S \ {x}))
RECURSIVE SetMin(_)
SetMin(S) == LET x == CHOOSE x \in S : TRUE IN
             IF S = {x} THEN x ELSE Min2(x, SetMin(S \ {x}))

Range(s) == { s[i] : i \in DOMAIN s }

(* every ordering of a finite set: the orders in which Python may iterate it *)
RECURSIVE Orderings(_)
Orderings(S) == IF S = {} THEN { << >> }
                ELSE UNION { { << x >> \o p : p \in Orderings(S \ {x}) } : x \in S }

-----------------------------------------------------------------------------
(* Calendar: CoreProcessor._add_working_days / _subtract_working_days /     *)
(* _count_working_days.  wd is project_plan.working_days.                  *)

weekday(d) == d % 7

(* With no working weekday the loops of _add/_subtract_working_days never  *)
(* count a day down: the date runs out of range and Python raises          *)
(* OverflowError.                                                          *)
Overflows(days, wd) == days > 0 /\ wd \cap (0..6) = {}

(* a calendar that counts every day: used to show what the claims rest on *)
add_calendar_days(start_date, days, wd) ==
    IF days > 0 THEN start_date + days ELSE start_date

subtract_calendar_days(end_date, days, wd) ==
    IF days > 0 THEN end_date - days ELSE end_date

RECURSIVE add_working_days(_, _, _)
add_working_days(start_date, days, wd) ==
    IF days > 0
    THEN LET current_date == start_date + 1 IN
         IF weekday(current_date) \in wd
         THEN add_working_days(current_date, days - 1, wd)
         ELSE add_working_days(current_date, days, wd)
    ELSE start_date

RECURSIVE subtract_working_days(_, _, _)
subtract_working_days(end_date, days, wd) ==
    IF days > 0
    THEN LET current_date == end_date - 1 IN
         IF weekday(current_date) \in wd
         THEN subtract_working_days(current_date, days - 1, wd)
         ELSE subtract_working_days(current_date, days, wd)
    ELSE end_date

RECURSIVE count_loop(_, _, _, _)
count_loop(current_date, end_date, working, wd) ==
    IF current_date <= end_date
    THEN count_loop(current_date + 1, end_date,
                    IF weekday(current_date) \in wd THEN working + 1 ELSE working,
                    wd)
    ELSE working

(* a count that leaves the end date out *)
count_working_days_exclusive(start_date, end_date, wd) ==
    IF start_date > end_date THEN 0
    ELSE count_loop(start_date, end_date - 1, 0, wd)

count_working_days(start_date, end_date, wd) ==
    IF start_date > end_date THEN 0
    ELSE count_loop(start_date, end_date, 0, wd)

-----------------------------------------------------------------------------
(* Task graph: CoreProcessor.__init__ / _build_data_structures             *)

Ids(tasks) == { tasks[i].id : i \in DOMAIN tasks }

(* task_map[id]: a later task of the list overwrites an earlier one *)
task_map(tasks, id) ==
    tasks[SetMax({ i \in DOMAIN tasks : tasks[i].id = id })]

IndexOf(tasks, id) == SetMax({ i \in DOMAIN tasks : tasks[i].id = id })

dependency_graph(tasks, id) == Range(task_map(tasks, id).dependencies)

reverse_dependency_graph(tasks, id) ==
    { x \in Ids(tasks) : id \in dependency_graph(tasks, x) }

(* in_degree[task.id] = len(task.dependencies): the length of the list *)
build_in_degree(tasks) ==
    [ id \in Ids(tasks) |-> Len(task_map(tasks, id).dependencies) ]

(* the ids in the order the dicts hold them: the order of plan.tasks *)
DictOrder(tasks) == [ i \in DOMAIN tasks |-> tasks[i].id ]

-----------------------------------------------------------------------------
(* Date deriver: CoreProcessor._calculate_task_dates.  Each step works on  *)
(* [task, exc]: exc is TRUE once a calendar call has raised.               *)

(* a deriver that leaves a milestone's duration as it came *)
force_milestone_skip(task) == task

(* lines 111-112 *)
force_milestone(task) ==
    IF task.is_milestone THEN [task EXCEPT !.duration = Some(0)] ELSE task

(* lines 116-121: the loop over task.dependencies *)
RECURSIVE latest_end_loop(_, _, _)
latest_end_loop(deps, tasks, latest_end_date) ==
    IF deps = << >> THEN latest_end_date
    ELSE LET dep_task == task_map(tasks, Head(deps)) IN
         latest_end_loop(Tail(deps), tasks,
             IF dep_task.end_date # None
             THEN IF latest_end_date = None
                     \/ Val(dep_task.end_date) > Val(latest_end_date)
                  THEN dep_task.end_date
                  ELSE latest_end_date
             ELSE latest_end_date)

(* a deriver that takes the end date of the first dependency that has one *)
latest_end_first(task, tasks) ==
    LET dated == SelectSeq(task.dependencies,
                           LAMBDA d : task_map(tasks, d).end_date # None)
    IN  IF dated = << >> THEN None ELSE task_map(tasks, Head(dated)).end_date

latest_end_date(task, tasks) == latest_end_loop(task.dependencies, tasks, None)

(* a deriver in which a start date the task already carries wins *)
start_from_dependencies_keep(s, tasks, wd) ==
    LET latest == latest_end_date(s.task, tasks) IN
    IF s.task.dependencies # << >> /\ latest # None /\ s.task.start_date = None
    THEN IF Overflows(1, wd) THEN [s EXCEPT !.exc = TRUE]
         ELSE [s EXCEPT !.task.start_date =
                          Some(add_working_days(Val(latest), 1, wd))]
    ELSE s

(* lines 115-124 *)
start_from_dependencies(s, tasks, wd) ==
    LET latest == latest_end_date(s.task, tasks) IN
    IF s.task.dependencies # << >> /\ latest # None
    THEN IF Overflows(1, wd) THEN [s EXCEPT !.exc = TRUE]
         ELSE [s EXCEPT !.task.start_date =
                          Some(add_working_days(Val(latest), 1, wd))]
    ELSE s

(* lines 127-135 *)
derive_missing(s, wd) ==
    LET task == s.task IN
    IF s.exc THEN s
    ELSE IF task.start_date # None /\ task.duration # None
    THEN IF Overflows(Val(task.duration) - 1, wd) THEN [s EXCEPT !.exc = TRUE]
         ELSE [s EXCEPT !.task.end_date =
                 Some(add_working_days(Val(task.start_date),
                                       Val(task.duration) - 1, wd))]
    ELSE IF task.start_date # None /\ task.end_date # None
    THEN [s EXCEPT !.task.duration =
            Some(count_working_days(Val(task.start_date),
                                    Val(task.end_date), wd) + 1)]
    ELSE IF task.end_date # None /\ task.duration # None
    THEN IF Overflows(Val(task.duration) - 1, wd) THEN [s EXCEPT !.exc = TRUE]
         ELSE [s EXCEPT !.task.start_date =
                 Some(subtract_working_days(Val(task.end_date),
                                            Val(task.duration) - 1, wd))]
    ELSE s

(* a fallback that sets the start and forgets the end date *)
fallback_start_no_end(s, plan_start, now, wd) ==
    IF s.exc \/ s.task.start_date # None THEN s
    ELSE [s EXCEPT !.task.start_date =
                     Some(IF plan_start # None THEN Val(plan_start) ELSE now)]

(* a fallback that takes today's date even when the plan has a start date *)
fallback_start_today(s, plan_start, now, wd) ==
    LET task == s.task IN
    IF s.exc \/ task.start_date # None THEN s
    ELSE IF task.duration # None
         THEN IF Overflows(Val(task.duration) - 1, wd)
              THEN [s EXCEPT !.task.start_date = Some(now), !.exc = TRUE]
              ELSE [s EXCEPT !.task.start_date = Some(now),
                             !.task.end_date =
                               Some(add_working_days(now,
                                                     Val(task.duration) - 1, wd))]
         ELSE [s EXCEPT !.task.start_date = Some(now)]

(* lines 138-143 *)
fallback_start(s, plan_start, now, wd) ==
    LET task == s.task IN
    IF s.exc \/ task.start_date # None THEN s
    ELSE LET start == IF plan_start # None THEN Val(plan_start) ELSE now IN
         IF task.duration # None
         THEN IF Overflows(Val(task.duration) - 1, wd)
              THEN [s EXCEPT !.task.start_date = Some(start), !.exc = TRUE]
              ELSE [s EXCEPT !.task.start_date = Some(start),
                             !.task.end_date =
                               Some(add_working_days(start,
                                                     Val(task.duration) - 1, wd))]
         ELSE [s EXCEPT !.task.start_date = Some(start)]

calculate_task_dates(task, plan, now) ==
    fallback_start(
        derive_missing(
            start_from_dependencies([task |-> force_milestone(task), exc |-> FALSE],
                                    plan.tasks, plan.working_days),
            plan.working_days),
        plan.start_date, now, plan.working_days)

(* a processor that leaves the plan's own dates as they are *)
keep_project_dates(plan) == plan

(* lines 145-166 *)
calculate_project_dates(plan) ==
    LET start_dates == { Val(plan.tasks[i].start_date) :
                           i \in { j \in DOMAIN plan.tasks :
                                     plan.tasks[j].start_date # None } }
        end_dates   == { Val(plan.tasks[i].end_date) :
                           i \in { j \in DOMAIN plan.tasks :
                                     plan.tasks[j].end_date # None } }
    IN  IF plan.tasks = << >> THEN plan
        ELSE [plan EXCEPT
                !.start_date = IF start_dates # {} THEN Some(SetMin(start_dates))
                               ELSE @,
                !.end_date   = IF end_dates # {} THEN Some(SetMax(end_dates))
                               ELSE @]

-----------------------------------------------------------------------------
(* Bounds of the model *)

MaxCalls == 2        \* operations called on the processor in one behaviour
MaxEdges == 3        \* dependency entries in a plan of the graph family
MaxDuration == 2     \* largest input duration

-----------------------------------------------------------------------------
(* Outcomes *)

(* scheduled: the loop dated every task and _calculate_project_dates ran *)
NoResult == [op |-> "none", status |-> "none", unprocessed |-> {},
             scheduled |-> FALSE]
NoCritical == [status |-> "none", path |-> << >>,
               earliest_start |-> << >>, latest_start |-> << >>]
NoCal == [op |-> "none"]
NoBuilt == [op |-> "none"]
NoStats == [status |-> "none"]

Running == {"calculate_dates", "validate_plan"}

(* the in_degree map the running loop reads and writes *)
CurrentInDegree == IF pc = "calculate_dates" THEN in_degree ELSE temp_in_degree

(* lines 68-71: the ids whose in-degree is 0, in dict order *)
RECURSIVE ZeroDegree(_, _)
ZeroDegree(ids, deg) ==
    IF ids = << >> THEN << >>
    ELSE IF deg[Head(ids)] = 0
         THEN << Head(ids) >> \o ZeroDegree(Tail(ids), deg)
         ELSE ZeroDegree(Tail(ids), deg)

(* a seeding that queues every task, whatever its in-degree *)
initial_queue_all(tasks, deg) == DictOrder(tasks)

initial_queue(tasks, deg) == ZeroDegree(DictOrder(tasks), deg)

(* lines 88-89: every dependent of task_id loses one *)
decrement_dependents(tasks, deg, task_id) ==
    [ id \in DOMAIN deg |->
        IF id \in reverse_dependency_graph(tasks, task_id)
        THEN deg[id] - 1 ELSE deg[id] ]

(* a loop that never queues a dependent *)
newly_ready_none(tasks, deg, task_id) == {}

(* lines 90-91: the dependents that reached 0 *)
newly_ready(tasks, deg, task_id) ==
    { id \in reverse_dependency_graph(tasks, task_id) :
        decrement_dependents(tasks, deg, task_id)[id] = 0 }

(* lines 249-258: the per-task diagnostics of validate_plan *)
RECURSIVE task_diagnostics(_)
task_diagnostics(tasks) ==
    IF tasks = << >> THEN << >>
    ELSE LET task == Head(tasks)
             missing == IF task.start_date = None /\ task.duration = None
                           /\ task.dependencies = << >>
                        THEN << [kind |-> "missing_time", ids |-> {task.id}] >>
                        ELSE << >>
             order   == IF task.start_date # None /\ task.end_date # None
                           /\ Val(task.start_date) > Val(task.end_date)
                        THEN << [kind |-> "start_after_end", ids |-> {task.id}] >>
                        ELSE << >>
         IN  missing \o order \o task_diagnostics(Tail(tasks))

-----------------------------------------------------------------------------
(* Operations *)

(* CoreProcessor(project_plan): a new processor on the same plan *)
Construct ==
    /\ pc = "idle"
    /\ in_degree # build_in_degree(project_plan.tasks)
    /\ in_degree' = build_in_degree(project_plan.tasks)
    /\ critical' = NoCritical
    /\ UNCHANGED << project_plan, temp_in_degree, pc, queue, processed_tasks,
                    popped, errors, result, pre, today, calls, cal, built, stats >>

(* calculate_dates, lines 67-74: seed the queue *)
CalculateDatesCall ==
    /\ pc = "idle"
    /\ calls < MaxCalls
    /\ pc' = "calculate_dates"
    /\ queue' = initial_queue(project_plan.tasks, in_degree)
    /\ processed_tasks' = {}
    /\ popped' = << >>
    /\ pre' = [plan |-> project_plan,
               fresh |-> in_degree = build_in_degree(project_plan.tasks),
               scheduled |-> result.scheduled]
    /\ calls' = calls + 1
    /\ result' = NoResult
    /\ critical' = NoCritical
    /\ errors' = << >>
    /\ UNCHANGED << project_plan, in_degree, temp_in_degree, today, cal, built, stats >>

(* validate_plan, lines 241-263: the diagnostics, then a temp_processor on *)
(* self.project_plan whose calculate_dates is started                      *)
ValidatePlanCall ==
    /\ pc = "idle"
    /\ calls < MaxCalls
    /\ pre' = [plan |-> project_plan, fresh |-> TRUE,
               scheduled |-> result.scheduled]
    /\ calls' = calls + 1
    /\ critical' = NoCritical
    /\ popped' = << >>
    /\ processed_tasks' = {}
    /\ IF project_plan.tasks = << >>
       THEN /\ errors' = << [kind |-> "no_tasks", ids |-> {}] >>
            /\ result' = [op |-> "validate_plan", status |-> "ok",
                          unprocessed |-> {}, scheduled |-> FALSE]
            /\ UNCHANGED << pc, queue, temp_in_degree >>
       ELSE /\ errors' = task_diagnostics(project_plan.tasks)
            /\ result' = NoResult
            /\ pc' = "validate_plan"
            /\ temp_in_degree' = build_in_degree(project_plan.tasks)
            /\ queue' = initial_queue(project_plan.tasks,
                                      build_in_degree(project_plan.tasks))
    /\ UNCHANGED << project_plan, in_degree, today, cal, built, stats >>

(* one iteration of the while loop, lines 76-91 *)
PopTask ==
    /\ pc \in Running
    /\ queue # << >>
    /\ LET task_id == Head(queue)
           tasks   == project_plan.tasks
           s       == calculate_task_dates(task_map(tasks, task_id),
                                           project_plan, today)
           deg     == decrement_dependents(tasks, CurrentInDegree, task_id)
       IN  IF task_id \in processed_tasks
           THEN /\ queue' = Tail(queue)
                /\ UNCHANGED << project_plan, in_degree, temp_in_degree, pc,
                                processed_tasks, popped, result >>
           ELSE /\ project_plan' =
                     [project_plan EXCEPT !.tasks[IndexOf(tasks, task_id)] = s.task]
                /\ processed_tasks' = processed_tasks \cup {task_id}
                /\ popped' = Append(popped, task_id)
                /\ IF s.exc
                   THEN \* the calendar raised: calculate_dates propagates it,
                        \* validate_plan's "except Exception: pass" swallows it
                        /\ pc' = "idle"
                        /\ queue' = << >>
                        /\ result' = [op |-> pc,
                                      status |-> IF pc = "calculate_dates"
                                                 THEN "OverflowError" ELSE "ok",
                                      unprocessed |-> {}, scheduled |-> FALSE]
                        /\ temp_in_degree' = << >>
                        /\ UNCHANGED in_degree
                   ELSE /\ \E order \in Orderings(newly_ready(tasks, CurrentInDegree,
                                                              task_id)) :
                               queue' = Tail(queue) \o order
                        /\ IF pc = "calculate_dates"
                           THEN in_degree' = deg /\ UNCHANGED temp_in_degree
                           ELSE temp_in_degree' = deg /\ UNCHANGED in_degree
                        /\ UNCHANGED << pc, result >>
    /\ UNCHANGED << errors, pre, today, calls, critical, cal, built, stats >>

(* the queue is empty, lines 93-101 (and lines 264-271 for validate_plan) *)
FinishLoop ==
    /\ pc \in Running
    /\ queue = << >>
    /\ pc' = "idle"
    /\ temp_in_degree' = << >>
    /\ LET unprocessed == Ids(project_plan.tasks) \ processed_tasks IN
       IF Cardinality(processed_tasks) # Len(project_plan.tasks)
       THEN /\ UNCHANGED project_plan
            /\ IF pc = "calculate_dates"
               THEN /\ result' = [op |-> pc, status |-> "ValueError",
                                  unprocessed |-> unprocessed,
                                  scheduled |-> FALSE]
                    /\ UNCHANGED errors
               ELSE /\ result' = [op |-> pc, status |-> "ok",
                                  unprocessed |-> unprocessed,
                                  scheduled |-> FALSE]
                    /\ errors' = Append(errors, [kind |-> "cycle",
                                                 ids |-> unprocessed])
       ELSE /\ project_plan' = calculate_project_dates(project_plan)
            /\ result' = [op |-> pc, status |-> "ok", unprocessed |-> {},
                          scheduled |-> TRUE]
            /\ UNCHANGED errors
    /\ UNCHANGED << in_degree, queue, processed_tasks, popped, pre, today,
                    calls, critical, cal, built, stats >>

-----------------------------------------------------------------------------
(* Critical path: CoreProcessor._topological_sort / get_critical_path      *)

(* lines 340-347.  The dependents of a task are a Python set, iterated in  *)
(* an order the hash seed decides: every order is a possible result.       *)
RECURSIVE topological_loop(_, _, _, _)
topological_loop(tasks, work, in_degree_copy, sorted) ==
    IF work = << >> THEN { sorted }
    ELSE LET task_id == Head(work)
             deg     == decrement_dependents(tasks, in_degree_copy, task_id)
         IN  UNION { topological_loop(tasks, Tail(work) \o order, deg,
                                      Append(sorted, task_id)) :
                       order \in Orderings(newly_ready(tasks, in_degree_copy,
                                                       task_id)) }

(* lines 333-349: the lists _topological_sort may return *)
topological_sort(tasks, deg) ==
    topological_loop(tasks, initial_queue(tasks, deg), deg, << >>)

(* lines 287-297: the forward pass; earliest_start maps an id to an Optional date *)
RECURSIVE forward_pass(_, _, _, _)
forward_pass(order, tasks, wd, earliest_start) ==
    IF order = << >> THEN [status |-> "ok", map |-> earliest_start]
    ELSE LET task_id == Head(order)
             task    == task_map(tasks, task_id)
             ends    == { task_map(tasks, d).end_date :
                            d \in Range(task.dependencies) }
         IN  IF task.dependencies = << >>
             THEN forward_pass(Tail(order), tasks, wd,
                               (task_id :> task.start_date) @@ earliest_start)
             ELSE IF None \in ends
             THEN [status |-> "TypeError", map |-> earliest_start]
             ELSE IF Overflows(1, wd)
             THEN [status |-> "OverflowError", map |-> earliest_start]
             ELSE forward_pass(Tail(order), tasks, wd,
                    (task_id :> Some(add_working_days(
                                       SetMax({ Val(e) : e \in ends }), 1, wd)))
                    @@ earliest_start)

(* lines 302-316: the backward pass over the reversed list *)
RECURSIVE backward_pass(_, _, _, _, _)
backward_pass(reversed, tasks, wd, earliest_start, latest_start) ==
    IF reversed = << >> THEN [status |-> "ok", map |-> latest_start]
    ELSE LET task_id    == Head(reversed)
             task       == task_map(tasks, task_id)
             dependents == reverse_dependency_graph(tasks, task_id)
             starts     == { latest_start[d] : d \in dependents }
         IN  IF dependents = {}
             THEN backward_pass(Tail(reversed), tasks, wd, earliest_start,
                                (task_id :> earliest_start[task_id]) @@ latest_start)
             ELSE IF ~ (dependents \subseteq DOMAIN latest_start)
             THEN [status |-> "KeyError", map |-> latest_start]
             ELSE IF None \in starts /\ Cardinality(dependents) > 1
             THEN [status |-> "TypeError", map |-> latest_start]
             ELSE IF task.duration = None
             THEN [status |-> "TypeError", map |-> latest_start]
             ELSE IF None \in starts
             THEN IF Val(task.duration) > 0
                  THEN [status |-> "TypeError", map |-> latest_start]
                  ELSE backward_pass(Tail(reversed), tasks, wd, earliest_start,
                                     (task_id :> None) @@ latest_start)
             ELSE IF Overflows(Val(task.duration), wd)
             THEN [status |-> "OverflowError", map |-> latest_start]
             ELSE backward_pass(Tail(reversed), tasks, wd, earliest_start,
                    (task_id :> Some(subtract_working_days(
                                       SetMin({ Val(x) : x \in starts }),
                                       Val(task.duration), wd)))
                    @@ latest_start)

Reverse(s) == [ i \in DOMAIN s |-> s[Len(s) + 1 - i] ]

(* lines 319-322: the ids of zero slack, in the order of earliest_start *)
RECURSIVE critical_tasks(_, _, _)
critical_tasks(order, earliest_start, latest_start) ==
    IF order = << >> THEN << >>
    ELSE IF earliest_start[Head(order)] = latest_start[Head(order)]
         THEN << Head(order) >> \o critical_tasks(Tail(order), earliest_start,
                                                  latest_start)
         ELSE critical_tasks(Tail(order), earliest_start, latest_start)

(* lines 282-324, for one list of _topological_sort *)
critical_path_of(order, tasks, wd) ==
    LET fwd == forward_pass(order, tasks, wd, << >>)
        bwd == backward_pass(Reverse(order), tasks, wd, fwd.map, << >>)
    IN  IF fwd.status # "ok"
        THEN [status |-> fwd.status, path |-> << >>,
              earliest_start |-> fwd.map, latest_start |-> << >>]
        ELSE IF bwd.status # "ok"
        THEN [status |-> bwd.status, path |-> << >>,
              earliest_start |-> fwd.map, latest_start |-> bwd.map]
        ELSE [status |-> "ok",
              path |-> critical_tasks(order, fwd.map, bwd.map),
              earliest_start |-> fwd.map, latest_start |-> bwd.map]

(* get_critical_path, called on the caller's processor *)
GetCriticalPath ==
    /\ pc = "idle"
    /\ \E order \in topological_sort(project_plan.tasks, in_degree) :
          critical' = critical_path_of(order, project_plan.tasks,
                                       project_plan.working_days)
    /\ UNCHANGED << project_plan, in_degree, temp_in_degree, pc, queue,
                    processed_tasks, popped, errors, result, pre, today, calls,
                    cal, built, stats >>

-----------------------------------------------------------------------------
(* Calendar operations on their own: _add_working_days, then               *)
(* _subtract_working_days of the same count, and _count_working_days       *)

MaxCalDate == 13     \* calendar inputs are the dates 0 .. MaxCalDate
MaxDays == 4         \* largest count of working days added

MonFri == 0 .. 4     \* models.py line 103: the default working_days
AllWeek == 0 .. 6
Weekend == {5, 6}

CalAdd ==
    /\ cal.op = "input"
    /\ cal' = IF Overflows(cal.days, cal.wd)
              THEN [cal EXCEPT !.op = "OverflowError"]
              ELSE [cal EXCEPT !.op = "added",
                               !.added = add_working_days(cal.start_date,
                                                          cal.days, cal.wd)]
    /\ UNCHANGED << project_plan, in_degree, temp_in_degree, pc, queue,
                    processed_tasks, popped, errors, result, pre, today, calls,
                    critical, built, stats >>

CalSubtract ==
    /\ cal.op = "added"
    /\ cal' = [cal EXCEPT !.op = "subtracted",
                          !.back = subtract_working_days(cal.added, cal.days,
                                                         cal.wd)]
    /\ UNCHANGED << project_plan, in_degree, temp_in_degree, pc, queue,
                    processed_tasks, popped, errors, result, pre, today, calls,
                    critical, built, stats >>

CalCount ==
    /\ cal.op = "input"
    /\ cal' = [cal EXCEPT !.op = "counted",
                          !.count = count_working_days(cal.start_date,
                                                       cal.end_date, cal.wd)]
    /\ UNCHANGED << project_plan, in_degree, temp_in_degree, pc, queue,
                    processed_tasks, popped, errors, result, pre, today, calls,
                    critical, built, stats >>

-----------------------------------------------------------------------------
(* Initial states: the plans a parser hands to CoreProcessor(project_plan) *)

Task(id, deps, p) ==
    [id |-> id, dependencies |-> deps, start_date |-> p.start_date,
     end_date |-> p.end_date, duration |-> p.duration,
     is_milestone |-> p.is_milestone]

Plan(tasks, start, wd) ==
    [tasks |-> tasks, start_date |-> start, end_date |-> None,
     working_days |-> wd]

(* input dates: a Monday and a Saturday to start, a Friday and a Sunday to end *)
OptStart == { None, Some(0), Some(5) }
OptEnd == { None, Some(4), Some(6) }
OptDuration == { None } \cup { Some(n) : n \in 0 .. MaxDuration }

Profiles == [start_date : OptStart, end_date : OptEnd,
             duration : OptDuration, is_milestone : BOOLEAN]

(* a task with nothing but a duration; a task with a start and an end *)
GraphProfiles ==
    { [start_date |-> None, end_date |-> None, duration |-> Some(1),
       is_milestone |-> FALSE],
      [start_date |-> Some(0), end_date |-> Some(4), duration |-> None,
       is_milestone |-> FALSE] }

(* the sequences over S of length at most n *)
RECURSIVE SeqsUpTo(_, _)
SeqsUpTo(S, n) ==
    IF n = 0 THEN { << >> }
    ELSE LET shorter == SeqsUpTo(S, n - 1) IN
         shorter \cup { Append(q, x) : q \in shorter, x \in S }

ABC == {"A", "B", "C"}

(* two tasks, B after A, listed in either order, with every input profile *)
PlansChain ==
    { Plan(tasks, None, MonFri) :
        tasks \in UNION { { << Task("A", << >>, pa), Task("B", << "A" >>, pb) >>,
                            << Task("B", << "A" >>, pb), Task("A", << >>, pa) >> } :
                          pa \in Profiles, pb \in Profiles } }

(* three tasks with any dependency lists of at most MaxEdges entries in all *)
PlansGraph ==
    { Plan(<< Task("A", da, pa), Task("B", db, pb), Task("C", dc, pc0) >>,
           None, MonFri) :
        << da, db, dc, pa, pb, pc0 >> \in
          { x \in SeqsUpTo(ABC, 2) \X SeqsUpTo(ABC, 2) \X SeqsUpTo(ABC, 2)
                    \X GraphProfiles \X GraphProfiles \X GraphProfiles :
              Len(x[1]) + Len(x[2]) + Len(x[3]) <= MaxEdges } }

(* the cycle of test_error_handling (A after C, B after A, C after B), in  *)
(* every order of the list                                                 *)
CycleTask(id, p) ==
    Task(id, IF id = "A" THEN << "C" >> ELSE IF id = "B" THEN << "A" >>
             ELSE << "B" >>, p)

PlansCycle ==
    { Plan([ i \in 1 .. 3 |-> CycleTask(order[i], p[order[i]]) ], None, MonFri) :
        order \in Orderings(ABC), p \in [ABC -> GraphProfiles] }

(* the reference scenario: A(start 2024-01-01, 5 days), B after A (3 days), *)
(* milestone M after B                                                     *)
PlanScenario ==
    Plan(<< Task("A", << >>, [start_date |-> Some(0), end_date |-> None,
                              duration |-> Some(5), is_milestone |-> FALSE]),
            Task("B", << "A" >>, [start_date |-> None, end_date |-> None,
                                  duration |-> Some(3), is_milestone |-> FALSE]),
            Task("M", << "B" >>, [start_date |-> None, end_date |-> None,
                                  duration |-> None, is_milestone |-> TRUE]) >>,
         None, MonFri)

(* one task or none, under every calendar and plan start date *)
PlansCalendar ==
    { Plan(tasks, start, wd) :
        tasks \in { << >> } \cup { << Task("A", << >>, p) >> : p \in Profiles },
        start \in { None, Some(1) },
        wd \in { MonFri, AllWeek, Weekend, {} } }

Plans == PlansChain \cup PlansGraph \cup PlansCycle \cup { PlanScenario }
             \cup PlansCalendar

Todays == { 2, 6 }

Init ==
    /\ project_plan \in Plans
    /\ today \in IF project_plan.start_date = None THEN Todays ELSE { 2 }
    /\ in_degree = build_in_degree(project_plan.tasks)
    /\ temp_in_degree = << >>
    /\ pc = "idle"
    /\ queue = << >>
    /\ processed_tasks = {}
    /\ popped = << >>
    /\ errors = << >>
    /\ result = NoResult
    /\ pre = [plan |-> project_plan, fresh |-> TRUE, scheduled |-> FALSE]
    /\ calls = 0
    /\ critical = NoCritical
    /\ cal = NoCal
    /\ built = NoBuilt
    /\ stats = NoStats

Next ==
    \/ Construct
    \/ CalculateDatesCall
    \/ ValidatePlanCall
    \/ PopTask
    \/ FinishLoop
    \/ GetCriticalPath

Spec == Init /\ [][Next]_vars

(* the calendar functions on bounded inputs *)
InitCal ==
    /\ cal \in [op : {"input"}, start_date : 0 .. MaxCalDate,
                end_date : { 0, 4, 6, MaxCalDate }, days : 0 .. MaxDays,
                wd : { MonFri, AllWeek, Weekend, {} },
                added : {0}, back : {0}, count : {0}]
    /\ project_plan = Plan(<< >>, None, MonFri)
    /\ today = 2
    /\ in_degree = << >>
    /\ temp_in_degree = << >>
    /\ pc = "cal"
    /\ queue = << >>
    /\ processed_tasks = {}
    /\ popped = << >>
    /\ errors = << >>
    /\ result = NoResult
    /\ pre = [plan |-> project_plan, fresh |-> TRUE, scheduled |-> FALSE]
    /\ calls = 0
    /\ critical = NoCritical
    /\ built = NoBuilt
    /\ stats = NoStats

NextCal == CalAdd \/ CalSubtract \/ CalCount

SpecCal == InitCal /\ [][NextCal]_vars

-----------------------------------------------------------------------------
(* Properties *)

(* calculate_dates of the caller's processor has returned the plan *)
CalcReturned ==
    pc = "idle" /\ result.op = "calculate_dates" /\ result.status = "ok"

(* calculate_dates of the caller's processor has raised the cycle error *)
CalcCycleError ==
    pc = "idle" /\ result.op = "calculate_dates" /\ result.status = "ValueError"

(* the end dates of the dependencies of t that have one *)
DependencyEnds(t, tasks) ==
    { Val(task_map(tasks, d).end_date) :
        d \in { x \in Range(t.dependencies) : task_map(tasks, x).end_date # None } }

DependencyOrdering(plan) ==
    \A i \in DOMAIN plan.tasks :
        LET t == plan.tasks[i]
            ends == DependencyEnds(t, plan.tasks)
        IN  (t.dependencies # << >> /\ ends # {}) =>
               /\ t.start_date # None
               /\ Val(t.start_date) >=
                    add_working_days(SetMax(ends), 1, plan.working_days)
               /\ \A e \in ends : Val(t.start_date) > e

(* C1: after calculate_dates succeeds, every task with dependencies starts *)
(* no earlier than one working day after the latest end date of its        *)
(* dependencies, so strictly after the end of each of them.                *)
C1_DependencyOrdering == CalcReturned => DependencyOrdering(project_plan)


(* the ids a task depends on, directly or through other tasks *)
RECURSIVE ReachLoop(_, _, _)
ReachLoop(tasks, frontier, seen) ==
    LET next == UNION { dependency_graph(tasks, x) : x \in frontier } \ seen IN
    IF next = {} THEN seen ELSE ReachLoop(tasks, next, seen \cup next)

DependsOn(tasks, id) == ReachLoop(tasks, {id}, {})
OnCycle(tasks, id) == id \in DependsOn(tasks, id)
Acyclic(tasks) == \A id \in Ids(tasks) : ~ OnCycle(tasks, id)

SameDates(t, u) ==
    /\ t.start_date = u.start_date
    /\ t.end_date = u.end_date
    /\ t.duration = u.duration

(* no task's start_date, end_date or duration differs from the plan at the call *)
TaskDatesUnchanged ==
    \A i \in DOMAIN project_plan.tasks :
        SameDates(project_plan.tasks[i], pre.plan.tasks[i])

(* the plan is the cycle A after C, B after A, C after B *)
IsCycleABC(tasks) ==
    /\ Len(tasks) = 3
    /\ Ids(tasks) = ABC
    /\ dependency_graph(tasks, "A") = {"C"}
    /\ dependency_graph(tasks, "B") = {"A"}
    /\ dependency_graph(tasks, "C") = {"B"}

(* C2: on the cycle A after C, B after A, C after B, in any order of the   *)
(* list, calculate_dates ends with the cycle error naming exactly A, B, C  *)
(* and leaves the three tasks' start_date, end_date and duration alone.    *)
C2_CycleDetected ==
    (pc = "idle" /\ result.op = "calculate_dates"
        /\ IsCycleABC(project_plan.tasks)) =>
       /\ result.status = "ValueError"
       /\ result.unprocessed = ABC
       /\ processed_tasks = {}
       /\ TaskDatesUnchanged

(* C2's case: the cycle error on a list that starts with C *)
C2_Witness ==
    /\ CalcCycleError
    /\ IsCycleABC(project_plan.tasks)
    /\ project_plan.tasks[1].id = "C"
    /\ project_plan.tasks[2].id = "A"
    /\ result.unprocessed = ABC

(* C3: on a freshly constructed processor, a plan with unique ids whose    *)
(* dependency relation has no cycle is processed whole and returned        *)
(* without an error.                                                       *)
C3_NoErrorWithoutCycle ==
    (pc = "idle" /\ result.op = "calculate_dates" /\ pre.fresh
        /\ Acyclic(project_plan.tasks)
        /\ project_plan.working_days # {}) =>
       /\ result.status = "ok"
       /\ processed_tasks = Ids(project_plan.tasks)

(* every task has its start_date, end_date and duration *)
FullyDated(tasks) ==
    \A i \in DOMAIN tasks :
        /\ tasks[i].start_date # None
        /\ tasks[i].end_date # None
        /\ tasks[i].duration # None

(* C4: a successful run on the fully dated output of a successful run      *)
(* changes no task's start_date, end_date or duration.                     *)
C4_Idempotent ==
    (pc = "idle" /\ result.scheduled /\ pre.scheduled
        /\ FullyDated(pre.plan.tasks)
        /\ project_plan.working_days = MonFri) => TaskDatesUnchanged

(* C5: after a successful run every milestone has duration 0 and           *)
(* start_date = end_date.                                                  *)
C5_MilestoneInvariant ==
    (pc = "idle" /\ result.scheduled) =>
        \A i \in DOMAIN project_plan.tasks :
            LET t == project_plan.tasks[i] IN
            t.is_milestone =>
               /\ t.duration = Some(0)
               /\ t.start_date # None
               /\ t.start_date = t.end_date

(* C5's cases: a milestone whose start came from its dependency and        *)
(* replaced its input start, beside a milestone with no start of its own   *)
C5_Witness ==
    /\ CalcReturned
    /\ \E i \in DOMAIN project_plan.tasks :
          LET t == project_plan.tasks[i]
              u == pre.plan.tasks[i]
          IN  /\ t.is_milestone
              /\ t.dependencies # << >>
              /\ u.start_date # None
              /\ u.start_date # t.start_date
              /\ u.duration = Some(2)
              /\ t.end_date = t.start_date
    /\ \E i \in DOMAIN project_plan.tasks :
          LET t == project_plan.tasks[i]
              u == pre.plan.tasks[i]
          IN  /\ t.is_milestone
              /\ t.dependencies = << >>
              /\ u.start_date = None
              /\ t.end_date = t.start_date


(* C6 as the spec states it: for every date d and every n >= 0,            *)
(* subtract_working_days(add_working_days(d, n), n) = d.                   *)
C6_RoundTripAnyDate ==
    cal.op = "subtracted" => cal.back = cal.start_date

(* C6, amended: the round trip returns d when d is a working day of the    *)
(* plan's working-day set, or n = 0.                                       *)
C6_RoundTripWorkingDay ==
    (cal.op = "subtracted"
        /\ (weekday(cal.start_date) \in cal.wd \/ cal.days = 0)) =>
       cal.back = cal.start_date

(* C6's case: two or more working days added from a working day across a   *)
(* weekend, and subtracted again                                           *)
C6_Witness ==
    /\ cal.op = "subtracted"
    /\ cal.wd = MonFri
    /\ weekday(cal.start_date) \in cal.wd
    /\ cal.days >= 2
    /\ cal.added > cal.start_date + cal.days
    /\ cal.back = cal.start_date

(* get_critical_path has returned a list after calculate_dates returned *)
CriticalReturned == CalcReturned /\ critical.status = "ok"

(* every task without dependencies came with a start_date: no date of the  *)
(* run comes from the plan-start or date.today() fallback                  *)
InputStartsKnown ==
    \A i \in DOMAIN pre.plan.tasks :
        pre.plan.tasks[i].dependencies = << >> =>
            pre.plan.tasks[i].start_date # None

(* C7: every task get_critical_path returns has earliest-start equal to    *)
(* latest-start, and every other task has its earliest-start before its    *)
(* latest-start, at least one working day apart (stated for the plans      *)
(* whose tasks without dependencies carry their own start_date).           *)
C7_ZeroSlack ==
    (CriticalReturned /\ InputStartsKnown) =>
        \A id \in DOMAIN critical.earliest_start :
            LET es == critical.earliest_start[id]
                ls == critical.latest_start[id]
            IN  IF id \in Range(critical.path)
                THEN es = ls
                ELSE /\ es # None
                     /\ ls # None
                     /\ Val(es) < Val(ls)
                     /\ count_working_days(Val(es) + 1, Val(ls),
                                           project_plan.working_days) >= 1

IsScenario(tasks) == Len(tasks) = 3 /\ Ids(tasks) = {"A", "B", "M"}

(* C8: on the reference scenario calculate_dates yields A.end = 2024-01-05, *)
(* B.start = 2024-01-08, B.end = 2024-01-10, M.start = M.end = 2024-01-11, *)
(* and get_critical_path, called after a calculate_dates that ran on a     *)
(* newly built processor, returns [A, B, M].                               *)
C8_ReferenceScenario ==
    (CalcReturned /\ IsScenario(project_plan.tasks)) =>
       /\ task_map(project_plan.tasks, "A").start_date = Some(0)
       /\ task_map(project_plan.tasks, "A").end_date = Some(4)
       /\ task_map(project_plan.tasks, "B").start_date = Some(7)
       /\ task_map(project_plan.tasks, "B").end_date = Some(9)
       /\ task_map(project_plan.tasks, "M").start_date = Some(10)
       /\ task_map(project_plan.tasks, "M").end_date = Some(10)
       /\ ((pre.fresh /\ critical # NoCritical) =>
              critical.status = "ok" /\ critical.path = << "A", "B", "M" >>)

(* C8's case: the scenario scheduled and its critical path computed *)
C8_Witness ==
    /\ CalcReturned
    /\ IsScenario(project_plan.tasks)
    /\ calls = 1
    /\ critical.status = "ok"
    /\ critical.path = << "A", "B", "M" >>
    /\ task_map(project_plan.tasks, "M").end_date = Some(10)

(* C9 as the spec states it: after a successful run every task has its     *)
(* start_date, end_date and duration.                                      *)
C9_FullyResolved ==
    (pc = "idle" /\ result.scheduled) => FullyDated(project_plan.tasks)

(* a task that is a milestone, or has a duration, or has both dates *)
TwoKnown(u) ==
    \/ u.is_milestone
    \/ u.duration # None
    \/ (u.start_date # None /\ u.end_date # None)

(* the tasks that are resolved: after a successful run every task has a    *)
(* start_date, and every task that entered the run as a milestone, with a  *)
(* duration, or with both a start_date and an end_date has all three       *)
C9_ResolvedWhenDerivable ==
    (pc = "idle" /\ result.scheduled) =>
        \A i \in DOMAIN project_plan.tasks :
            LET t == project_plan.tasks[i]
                u == pre.plan.tasks[i]
            IN  /\ t.start_date # None
                /\ TwoKnown(u) =>
                     (t.end_date # None /\ t.duration # None)

(* a duration derived from the two dates, an end date derived from the     *)
(* fallback start                                                          *)
C9_Witness ==
    /\ CalcReturned
    /\ \E i \in DOMAIN project_plan.tasks :
          /\ pre.plan.tasks[i].duration = None
          /\ pre.plan.tasks[i].start_date # None
          /\ pre.plan.tasks[i].end_date # None
          /\ project_plan.tasks[i].duration # None
    /\ \E i \in DOMAIN project_plan.tasks :
          /\ pre.plan.tasks[i].start_date = None
          /\ pre.plan.tasks[i].end_date = None
          /\ pre.plan.tasks[i].duration = Some(1)
          /\ pre.plan.tasks[i].dependencies = << >>
          /\ project_plan.tasks[i].end_date = Some(today)

(* C10: validate_plan leaves every task's start_date, end_date and         *)
(* duration and the plan's start_date and end_date as they were.           *)
C10_ValidateNonDestructive ==
    (pc = "idle" /\ result.op = "validate_plan"
        /\ project_plan.working_days = MonFri) =>
       /\ TaskDatesUnchanged
       /\ project_plan.start_date = pre.plan.start_date
       /\ project_plan.end_date = pre.plan.end_date

-----------------------------------------------------------------------------
(* validate_plan *)

(* validate_plan has returned its list (it has no raise of its own, and    *)
(* the temp run's exceptions are caught at lines 264-269)                  *)
ValidateReturned ==
    pc = "idle" /\ result.op = "validate_plan" /\ result.status = "ok"

(* a task with a start_date, a duration or a dependency *)
HasBasis(t) ==
    t.start_date # None \/ t.duration # None \/ t.dependencies # << >>

StartAfterEnd(t) ==
    t.start_date # None /\ t.end_date # None
        /\ Val(t.start_date) > Val(t.end_date)

(* the three conditions under which the list is said to be empty *)
PlanSound(tasks) ==
    /\ \A i \in DOMAIN tasks : HasBasis(tasks[i]) /\ ~ StartAfterEnd(tasks[i])
    /\ Acyclic(tasks)

HasCycleMessage == \E i \in DOMAIN errors : errors[i].kind = "cycle"

(* C11: for a non-empty plan validate_plan returns a list that is empty    *)
(* exactly when every task has a start_date, a duration or a dependency,   *)
(* no task starts after its end, and the dependency relation is acyclic;   *)
(* for a cyclic plan the list holds the cycle message.                     *)
C11_ValidateDiagnostics ==
    (pc = "idle" /\ result.op = "validate_plan" /\ pre.plan.tasks # << >>) =>
       /\ result.status = "ok"
       /\ (errors = << >>) <=> PlanSound(pre.plan.tasks)
       /\ ~ Acyclic(pre.plan.tasks) => HasCycleMessage

(* the same statement for plans whose dependency lists name no id twice *)
NoDuplicateDependencies(tasks) ==
    \A i \in DOMAIN tasks :
        Len(tasks[i].dependencies) = Cardinality(Range(tasks[i].dependencies))

-----------------------------------------------------------------------------
(* Plan construction: ProjectPlan(tasks=...) and plan.tasks = ... with     *)
(* Config.validate_assignment (models.py lines 107-125, 182-185)           *)

(* a validator that accepts every list *)
validate_anything(v) == "ok"

(* lines 107-113: "ValueError" when two tasks share an id *)
validate_task_ids(v) ==
    IF Len(v) # Cardinality(Ids(v)) THEN "ValueError" ELSE "ok"

(* lines 115-125: "ValueError" when a dependency names no task of the list *)
validate_dependencies(v) ==
    IF \E i \in DOMAIN v : \E j \in DOMAIN v[i].dependencies :
           v[i].dependencies[j] \notin Ids(v)
    THEN "ValueError" ELSE "ok"

(* the validators of the field tasks, in the order of the class body; a    *)
(* ValueError of a validator is reported as pydantic's ValidationError     *)
validate_tasks(v) ==
    IF validate_task_ids(v) # "ok" THEN "ValidationError"
    ELSE IF validate_dependencies(v) # "ok" THEN "ValidationError"
    ELSE "ok"

MaxBuildTasks == 2   \* longest task list handed to the constructor

(* a task of the candidate lists: only id and dependencies matter here *)
BuildTask(id, deps) ==
    Task(id, deps, [start_date |-> None, end_date |-> None,
                    duration |-> Some(1), is_milestone |-> FALSE])

BuildTasks == { BuildTask(id, deps) : id \in ABC, deps \in SeqsUpTo(ABC, 1) }

(* ProjectPlan(tasks = built.tasks): built.plan is the plan, or None when  *)
(* the constructor raised                                                  *)
BuildPlan ==
    /\ pc = "build"
    /\ built.op = "input"
    /\ built' = IF validate_tasks(built.tasks) = "ok"
                THEN [built EXCEPT !.op = "constructed",
                                   !.plan = Some(Plan(built.tasks, None, MonFri))]
                ELSE [built EXCEPT !.op = "ValidationError"]
    /\ UNCHANGED << project_plan, in_degree, temp_in_degree, pc, queue,
                    processed_tasks, popped, errors, result, pre, today, calls,
                    critical, cal, stats >>

(* project_plan.tasks = built.tasks on an existing plan: the assignment is *)
(* validated first, and a rejected one leaves the plan as it was           *)
AssignTasks ==
    /\ pc = "build"
    /\ built.op = "input"
    /\ IF validate_tasks(built.tasks) = "ok"
       THEN /\ project_plan' = [project_plan EXCEPT !.tasks = built.tasks]
            /\ built' = [built EXCEPT !.op = "assigned"]
       ELSE /\ built' = [built EXCEPT !.op = "assign ValidationError"]
            /\ UNCHANGED project_plan
    /\ UNCHANGED << in_degree, temp_in_degree, pc, queue, processed_tasks,
                    popped, errors, result, pre, today, calls, critical, cal,
                    stats >>

(* the plans an assignment is made on: an empty one and a one-task one *)
PlansBuilt ==
    { Plan(<< >>, None, MonFri),
      Plan(<< BuildTask("A", << >>) >>, None, MonFri) }

InitBuild ==
    /\ built \in [op : {"input"}, tasks : SeqsUpTo(BuildTasks, MaxBuildTasks),
                  plan : { None }]
    /\ project_plan \in PlansBuilt
    /\ pc = "build"
    /\ today = 2
    /\ in_degree = << >>
    /\ temp_in_degree = << >>
    /\ queue = << >>
    /\ processed_tasks = {}
    /\ popped = << >>
    /\ errors = << >>
    /\ result = NoResult
    /\ pre = [plan |-> project_plan, fresh |-> TRUE, scheduled |-> FALSE]
    /\ calls = 0
    /\ critical = NoCritical
    /\ cal = NoCal
    /\ stats = NoStats

NextBuild == BuildPlan \/ AssignTasks

SpecBuild == InitBuild /\ [][NextBuild]_vars

(* the list has two tasks with one id, or a dependency on no task of it *)
StructurallyInvalid(v) ==
    \/ \E i, j \in DOMAIN v : i # j /\ v[i].id = v[j].id
    \/ \E i \in DOMAIN v :
          Range(v[i].dependencies) \ { v[j].id : j \in DOMAIN v } # {}

(* C12: building a ProjectPlan from, or assigning to plan.tasks, a list    *)
(* with a repeated id or a dependency on an absent id raises the           *)
(* validation error: no plan is built, and the assigned plan keeps its     *)
(* tasks; every other list is accepted.                                    *)
C12_ConstructionRejectsInvalid ==
    /\ built.op \in {"constructed", "ValidationError"} =>
          /\ StructurallyInvalid(built.tasks) <=> built.op = "ValidationError"
          /\ built.op = "ValidationError" => built.plan = None
          /\ built.op = "constructed" => Val(built.plan).tasks = built.tasks
    /\ built.op \in {"assigned", "assign ValidationError"} =>
          /\ StructurallyInvalid(built.tasks) <=> built.op = "assign ValidationError"
          /\ built.op = "assign ValidationError" => project_plan \in PlansBuilt
          /\ built.op = "assigned" => project_plan.tasks = built.tasks

(* C12's cases: the list of test_error_handling's kind (A after B, B after *)
(* an absent C) rejected by the constructor                                *)
C12_Witness ==
    /\ built.op = "ValidationError"
    /\ Len(built.tasks) = 2
    /\ built.tasks[1].id = "A" /\ built.tasks[1].dependencies = << "B" >>
    /\ built.tasks[2].id = "B" /\ built.tasks[2].dependencies = << "C" >>
    /\ built.plan = None

-----------------------------------------------------------------------------
(* Termination and failure of calculate_dates *)

(* no id occurs twice in the sequence *)
NoRepeats(s) == \A i, j \in DOMAIN s : s[i] = s[j] => i = j

(* C13: every calculate_dates ends by returning the plan or by raising the *)
(* cycle error, whatever subset of 0..6 working_days is, and no task is    *)
(* popped and dated twice in a run.                                        *)
C13_Termination ==
    /\ (pc = "idle" /\ result.op = "calculate_dates") =>
           result.status \in {"ok", "ValueError"}
    /\ NoRepeats(popped)

(* the same statement for the calendars with at least one working day *)
C13_TerminationWorkingCalendar ==
    /\ (pc = "idle" /\ result.op = "calculate_dates"
           /\ project_plan.working_days # {}) =>
           result.status \in {"ok", "ValueError"}
    /\ NoRepeats(popped)

(* C14: when calculate_dates raises the cycle error, no task of the plan,  *)
(* on the cycle or off it, has its start_date, end_date or duration        *)
(* changed, and the plan's start_date and end_date are as before.          *)
C14_AtomicFailure ==
    CalcCycleError =>
       /\ TaskDatesUnchanged
       /\ project_plan.start_date = pre.plan.start_date
       /\ project_plan.end_date = pre.plan.end_date

(* what the failed run does leave alone: the tasks the error names and the *)
(* plan's own dates                                                        *)
C14_UnprocessedUntouched ==
    CalcCycleError =>
       /\ \A i \in DOMAIN project_plan.tasks :
             project_plan.tasks[i].id \in result.unprocessed =>
                 SameDates(project_plan.tasks[i], pre.plan.tasks[i])
       /\ project_plan.start_date = pre.plan.start_date
       /\ project_plan.end_date = pre.plan.end_date

-----------------------------------------------------------------------------
(* Plan dates *)

(* d is the least start_date of the tasks that have one *)
IsMinStart(d, tasks) ==
    /\ \E i \in DOMAIN tasks : tasks[i].start_date = Some(d)
    /\ \A i \in DOMAIN tasks :
          tasks[i].start_date # None => d <= Val(tasks[i].start_date)

(* d is the greatest end_date of the tasks that have one *)
IsMaxEnd(d, tasks) ==
    /\ \E i \in DOMAIN tasks : tasks[i].end_date = Some(d)
    /\ \A i \in DOMAIN tasks :
          tasks[i].end_date # None => d >= Val(tasks[i].end_date)

(* C15: after a successful calculate_dates on a non-empty plan the plan's  *)
(* start_date is the minimum task start_date and, when some task has an    *)
(* end_date, the plan's end_date is the maximum task end_date; on a plan   *)
(* with no tasks both plan dates are as they were.                         *)
C15_PlanDates ==
    CalcReturned =>
        IF project_plan.tasks = << >>
        THEN /\ project_plan.start_date = pre.plan.start_date
             /\ project_plan.end_date = pre.plan.end_date
        ELSE /\ project_plan.start_date # None
             /\ IsMinStart(Val(project_plan.start_date), project_plan.tasks)
             /\ (\E i \in DOMAIN project_plan.tasks :
                     project_plan.tasks[i].end_date # None) =>
                    /\ project_plan.end_date # None
                    /\ IsMaxEnd(Val(project_plan.end_date), project_plan.tasks)

(* C15's cases: two tasks with different starts and ends, the plan's dates *)
(* taken from both                                                         *)
C15_Witness ==
    /\ CalcReturned
    /\ Len(project_plan.tasks) >= 2
    /\ pre.plan.start_date = None
    /\ project_plan.start_date # None
    /\ project_plan.end_date # None
    /\ \E i, j \in DOMAIN project_plan.tasks :
          /\ project_plan.tasks[i].start_date = project_plan.start_date
          /\ project_plan.tasks[j].end_date = project_plan.end_date
          /\ project_plan.tasks[j].start_date # project_plan.start_date
          /\ project_plan.tasks[i].end_date # project_plan.end_date

(* C15's other case: calculate_dates returned an empty plan that came with *)
(* a start_date                                                            *)
C15_WitnessEmpty ==
    /\ CalcReturned
    /\ project_plan.tasks = << >>
    /\ project_plan.start_date = Some(1)

-----------------------------------------------------------------------------
(* Statistics: CoreProcessor.get_project_statistics (processor.py 351-391), *)
(* on tasks that carry a status list and a section (models.py 38-42)       *)

(* a duration that leaves out the + 1 of line 363 *)
total_duration_span(plan) ==
    IF plan.start_date # None /\ plan.end_date # None
    THEN count_working_days(Val(plan.start_date), Val(plan.end_date),
                            plan.working_days)
    ELSE 0

(* lines 358-363 *)
total_duration(plan) ==
    IF plan.start_date # None /\ plan.end_date # None
    THEN count_working_days(Val(plan.start_date), Val(plan.end_date),
                            plan.working_days) + 1
    ELSE 0

(* lines 365-373: len([task for task in tasks if word in task.status]) *)
count_status(tasks, word) ==
    Len(SelectSeq(tasks, LAMBDA task : word \in Range(task.status)))

(* models.py 136-139: ProjectPlan.milestone_count *)
milestone_count(tasks) == Len(SelectSeq(tasks, LAMBDA task : task.is_milestone))

(* models.py 157-163: ProjectPlan.get_sections, the distinct non-empty     *)
(* sections (returned sorted; kept here as the set)                        *)
get_sections(tasks) ==
    { Val(tasks[i].section) :
        i \in { j \in DOMAIN tasks :
                  tasks[j].section # None /\ Val(tasks[j].section) # "" } }

(* lines 384-387: completed_tasks / len(tasks) * 100, or 0 without tasks;  *)
(* the float is kept as the exact fraction num / den                       *)
completion_rate(tasks) ==
    IF tasks # << >>
    THEN [num |-> count_status(tasks, "done") * 100, den |-> Len(tasks)]
    ELSE [num |-> 0, den |-> 1]

(* lines 358-391 for one list of _topological_sort: the dict, or the       *)
(* exception get_critical_path raised at line 375                          *)
project_statistics(plan, order) ==
    LET path == critical_path_of(order, plan.tasks, plan.working_days) IN
    IF path.status # "ok"
    THEN [status |-> path.status, of |-> plan]
    ELSE [status |-> "ok", of |-> plan,
          total_tasks |-> Len(plan.tasks),
          completed_tasks |-> count_status(plan.tasks, "done"),
          active_tasks |-> count_status(plan.tasks, "active"),
          milestone_count |-> milestone_count(plan.tasks),
          total_duration |-> total_duration(plan),
          start_date |-> plan.start_date,
          end_date |-> plan.end_date,
          completion_rate |-> completion_rate(plan.tasks),
          critical_path_length |-> Len(path.path),
          sections |-> get_sections(plan.tasks)]

GetProjectStatistics ==
    /\ pc = "idle"
    /\ \E order \in topological_sort(project_plan.tasks, in_degree) :
          stats' = project_statistics(project_plan, order)
    /\ UNCHANGED << project_plan, in_degree, temp_in_degree, pc, queue,
                    processed_tasks, popped, errors, result, pre, today, calls,
                    critical, cal, built >>

(* status lists and sections of the plans the statistics are taken of *)
StatusLists ==
    { << >>, << "done" >>, << "active" >>, << "crit", "done" >>,
      << "active", "crit" >> }

Sections == { None, Some("dev") }

Marks == [status : StatusLists, section : Sections]

StatTask(id, deps, p, m) ==
    [status |-> m.status, section |-> m.section] @@ Task(id, deps, p)

StartAndDuration ==
    [start_date |-> Some(0), end_date |-> None, duration |-> Some(2),
     is_milestone |-> FALSE]

OnlyDuration ==
    [start_date |-> None, end_date |-> None, duration |-> Some(1),
     is_milestone |-> FALSE]

OnlyStart ==
    [start_date |-> Some(0), end_date |-> None, duration |-> None,
     is_milestone |-> FALSE]

Milestone ==
    [start_date |-> None, end_date |-> None, duration |-> None,
     is_milestone |-> TRUE]

(* no task; one task; B after A in both list orders; A, B and milestone M *)
PlansStats ==
    { Plan(<< >>, None, MonFri) }
    \cup { Plan(<< StatTask("A", << >>, p, ma) >>, None, MonFri) :
             p \in { StartAndDuration, OnlyStart }, ma \in Marks }
    \cup { Plan(tasks, None, MonFri) :
             tasks \in UNION {
                 { << StatTask("A", << >>, StartAndDuration, ma),
                      StatTask("B", << "A" >>, OnlyDuration, mb) >>,
                   << StatTask("B", << "A" >>, OnlyDuration, mb),
                      StatTask("A", << >>, StartAndDuration, ma) >> } :
                 ma \in Marks, mb \in Marks } }
    \cup { Plan(<< StatTask("A", << >>, StartAndDuration, ma),
                   StatTask("B", << "A" >>, OnlyDuration, mb),
                   StatTask("M", << "B" >>, Milestone, mm) >>, None, MonFri) :
             ma \in Marks, mb \in Marks, mm \in Marks }

InitStats ==
    /\ project_plan \in PlansStats
    /\ today = 2
    /\ in_degree = build_in_degree(project_plan.tasks)
    /\ temp_in_degree = << >>
    /\ pc = "idle"
    /\ queue = << >>
    /\ processed_tasks = {}
    /\ popped = << >>
    /\ errors = << >>
    /\ result = NoResult
    /\ pre = [plan |-> project_plan, fresh |-> TRUE, scheduled |-> FALSE]
    /\ calls = 0
    /\ critical = NoCritical
    /\ cal = NoCal
    /\ built = NoBuilt
    /\ stats = NoStats

NextStats ==
    \/ CalculateDatesCall
    \/ PopTask
    \/ FinishLoop
    \/ GetProjectStatistics

SpecStats == InitStats /\ [][NextStats]_vars

(* the number of tasks whose status list holds the word *)
CountWithStatus(tasks, word) ==
    Cardinality({ i \in DOMAIN tasks :
                    \E k \in DOMAIN tasks[i].status : tasks[i].status[k] = word })

(* C16: the dict get_project_statistics returns has total_tasks = the task *)
(* count, completed_tasks and active_tasks = the tasks whose status holds  *)
(* 'done' and 'active', milestone_count = the is_milestone tasks,          *)
(* completion_rate = completed / total * 100 (0 without tasks) and         *)
(* total_duration = count_working_days(plan.start, plan.end) + 1 (0 when a *)
(* plan date is missing); it returns nothing only when get_critical_path   *)
(* raised.                                                                 *)
C16_Statistics ==
    /\ stats.status \in {"none", "ok", "KeyError", "TypeError", "OverflowError"}
    /\ stats.status = "ok" =>
        LET plan  == stats.of
            tasks == plan.tasks
            done  == CountWithStatus(tasks, "done")
        IN  /\ stats.total_tasks = Len(tasks)
            /\ stats.completed_tasks = done
            /\ stats.active_tasks = CountWithStatus(tasks, "active")
            /\ stats.milestone_count =
                 Cardinality({ i \in DOMAIN tasks : tasks[i].is_milestone })
            /\ IF Len(tasks) = 0
               THEN stats.completion_rate.num = 0
               ELSE stats.completion_rate.num * Len(tasks) =
                      done * 100 * stats.completion_rate.den
            /\ stats.completion_rate.den > 0
            /\ IF plan.start_date = None \/ plan.end_date = None
               THEN stats.total_duration = 0
               ELSE stats.total_duration =
                      count_working_days(Val(plan.start_date), Val(plan.end_date),
                                         plan.working_days) + 1

(* C16's case: the statistics of the scheduled plan A, B, M with one task  *)
(* done, one active, over 2024-01-01 .. 2024-01-04                         *)
C16_Witness ==
    /\ CalcReturned
    /\ stats.status = "ok"
    /\ stats.of = project_plan
    /\ stats.total_tasks = 3
    /\ stats.completed_tasks = 1
    /\ stats.active_tasks = 1
    /\ stats.milestone_count = 1
    /\ stats.completion_rate = [num |-> 100, den |-> 3]
    /\ stats.total_duration = 5
    /\ stats.critical_path_length = 3
    /\ stats.sections = {"dev"}

-----------------------------------------------------------------------------
(* Critical path after scheduling *)

(* C17: after calculate_dates succeeded on a non-empty acyclic plan and    *)
(* left every task fully dated, get_critical_path on the same processor    *)
(* returns a non-empty list without raising, in any order of plan.tasks.   *)
C17_CriticalPathReturns ==
    (CalcReturned /\ project_plan.tasks # << >> /\ Acyclic(project_plan.tasks)
        /\ FullyDated(project_plan.tasks) /\ critical # NoCritical) =>
       /\ critical.status = "ok"
       /\ critical.path # << >>

(* the same statement for the lists in which every task comes after the    *)
(* tasks it depends on, scheduled once on a newly built processor          *)
ListedAfterDependencies(tasks) ==
    \A i \in DOMAIN tasks : \A d \in Range(tasks[i].dependencies) :
        \E j \in DOMAIN tasks : j < i /\ tasks[j].id = d

C17_CriticalPathReturnsInListOrder ==
    (CalcReturned /\ project_plan.tasks # << >> /\ Acyclic(project_plan.tasks)
        /\ FullyDated(project_plan.tasks) /\ critical # NoCritical
        /\ pre.fresh /\ ListedAfterDependencies(project_plan.tasks)) =>
       /\ critical.status = "ok"
       /\ critical.path # << >>

-----------------------------------------------------------------------------
(* The ids in the cycle error *)

(* C18: when calculate_dates stops with the cycle error, every unprocessed *)
(* task id it reports is a member of a cycle of the dependency relation.   *)
C18_ReportedOnCycle ==
    CalcCycleError =>
        \A id \in result.unprocessed : OnCycle(project_plan.tasks, id)

(* id is on a cycle or depends, through any number of tasks, on a task     *)
(* that is on one                                                          *)
BehindCycle(tasks, id) ==
    \/ OnCycle(tasks, id)
    \/ \E d \in DependsOn(tasks, id) : OnCycle(tasks, d)

(* C18, as the scheduler reports: on the first run of a processor over a   *)
(* plan in which no task lists a dependency twice, every reported id is on *)
(* a cycle or depends on a task that is, and every such id is reported.    *)
C18_ReportedBehindCycle ==
    (CalcCycleError /\ pre.fresh /\ NoDuplicateDependencies(project_plan.tasks)) =>
        result.unprocessed =
            { id \in Ids(project_plan.tasks) : BehindCycle(project_plan.tasks, id) }

(* the error names a task that is on no cycle but depends on one *)
C18_Witness ==
    /\ CalcCycleError /\ pre.fresh
    /\ NoDuplicateDependencies(project_plan.tasks)
    /\ \E id \in result.unprocessed :
          /\ ~ OnCycle(project_plan.tasks, id)
          /\ BehindCycle(project_plan.tasks, id)

-----------------------------------------------------------------------------
(* The in-degree map at the start of a run *)

(* every task the run dated was dated after each of its dependencies *)
PoppedAfterDependencies ==
    \A i \in DOMAIN popped :
        \A d \in dependency_graph(project_plan.tasks, popped[i]) :
            \E j \in DOMAIN popped : j < i /\ popped[j] = d

(* C19: every calculate_dates run, a second run on the same processor      *)
(* included, starts from the in-degree map counting each task's            *)
(* dependencies, and dates a task only after all its dependencies were     *)
(* dated in that run.                                                      *)
C19_InDegreeRebuilt ==
    (pc = "idle" /\ result.op = "calculate_dates") =>
       /\ pre.fresh
       /\ PoppedAfterDependencies

(* a run that starts from the map counting each task's dependencies dates  *)
(* a task only after all its dependencies                                  *)
C19_FirstRunInOrder ==
    (pc = "idle" /\ result.op = "calculate_dates" /\ pre.fresh) =>
        PoppedAfterDependencies

-----------------------------------------------------------------------------
(* The lists of _topological_sort *)

(* order holds each task id once, every task after the tasks it depends on *)
IsTopologicalOrder(order, tasks) ==
    /\ Len(order) = Len(tasks)
    /\ Range(order) = Ids(tasks)
    /\ \A i \in DOMAIN order :
          \A d \in dependency_graph(tasks, order[i]) :
              \E j \in DOMAIN order : j < i /\ order[j] = d

(* C20: for an acyclic plan every list _topological_sort can return holds  *)
(* each task id exactly once with every task after all the tasks it        *)
(* depends on, on a new processor and after calculate_dates has run on the *)
(* same processor.                                                         *)
C20_TopologicalSort ==
    (pc = "idle" /\ Acyclic(project_plan.tasks)) =>
        \A order \in topological_sort(project_plan.tasks, in_degree) :
            IsTopologicalOrder(order, project_plan.tasks)

(* the same statement when the processor's in-degree map still counts each *)
(* task's dependencies and no task lists a dependency twice                *)
C20_TopologicalSortCountedMap ==
    (pc = "idle" /\ Acyclic(project_plan.tasks)
        /\ in_degree = build_in_degree(project_plan.tasks)
        /\ NoDuplicateDependencies(project_plan.tasks)) =>
        \A order \in topological_sort(project_plan.tasks, in_degree) :
            IsTopologicalOrder(order, project_plan.tasks)

-----------------------------------------------------------------------------
(* Duration and span *)

(* the task's end date is its start date plus duration - 1 working days *)
SpanConsistent(t, wd) ==
    (t.start_date # None /\ t.end_date # None /\ t.duration # None
        /\ Val(t.duration) >= 1) =>
       Val(t.end_date) = add_working_days(Val(t.start_date), Val(t.duration) - 1, wd)

(* C21: after calculate_dates succeeds, every task with start_date,        *)
(* end_date and duration d >= 1 has end_date = add_working_days(start_date,*)
(* d - 1), a task whose duration was derived from an input start_date and  *)
(* end_date included.                                                      *)
C21_DurationSpan ==
    CalcReturned =>
        \A i \in DOMAIN project_plan.tasks :
            SpanConsistent(project_plan.tasks[i], project_plan.working_days)

(* the same statement for the tasks that came into the run with a duration *)
(* and end on a working day                                                *)
C21_DurationSpanGivenDuration ==
    CalcReturned =>
        \A i \in DOMAIN project_plan.tasks :
            LET t == project_plan.tasks[i] IN
            (pre.plan.tasks[i].duration # None /\ t.end_date # None
                /\ weekday(Val(t.end_date)) \in project_plan.working_days) =>
                SpanConsistent(t, project_plan.working_days)

-----------------------------------------------------------------------------
(* Start date from the dependencies *)

(* the end date task d had when the i-th task of the run was popped: the   *)
(* run changes a task only when it pops it                                 *)
EndAtPop(d, i) ==
    IF \E j \in DOMAIN popped : j < i /\ popped[j] = d
    THEN task_map(project_plan.tasks, d).end_date
    ELSE task_map(pre.plan.tasks, d).end_date

EndsAtPop(i) ==
    { Val(EndAtPop(d, i)) :
        d \in { x \in dependency_graph(project_plan.tasks, popped[i]) :
                  EndAtPop(x, i) # None } }

(* C22: a task with dependencies of which at least one had an end_date     *)
(* when the task was popped has, after the run, the start_date             *)
(* add_working_days(latest such end_date, 1), whatever start_date it       *)
(* carried as input.                                                       *)
C22_DependencyStartWins ==
    CalcReturned =>
        \A i \in DOMAIN popped :
            EndsAtPop(i) # {} =>
                task_map(project_plan.tasks, popped[i]).start_date =
                    Some(add_working_days(SetMax(EndsAtPop(i)), 1,
                                          project_plan.working_days))

(* a task came with a start date of its own and the run replaced it by the *)
(* day after its latest dependency                                         *)
C22_Witness ==
    /\ CalcReturned
    /\ \E i \in DOMAIN popped :
          LET before == task_map(pre.plan.tasks, popped[i])
              after  == task_map(project_plan.tasks, popped[i])
          IN  /\ EndsAtPop(i) # {}
              /\ before.start_date # None
              /\ after.start_date # before.start_date
              /\ after.start_date =
                    Some(add_working_days(SetMax(EndsAtPop(i)), 1,
                                          project_plan.working_days))

-----------------------------------------------------------------------------
(* Start fallback *)

(* the task came into the run with no dependencies, no start date, and no  *)
(* end date and duration to derive one from (a milestone's duration is 0)  *)
NeedsFallback(t) ==
    /\ t.dependencies = << >>
    /\ t.start_date = None
    /\ ~ (t.end_date # None /\ force_milestone(t).duration # None)

(* C23: after calculate_dates succeeds every task has a start_date; a task *)
(* with no dependencies and no start derivable from end_date and duration  *)
(* has the start_date the plan had when the run began, if it had one, and  *)
(* when its duration is known its end_date is                              *)
(* add_working_days(that start, duration - 1).                             *)
C23_StartFallback ==
    CalcReturned =>
        \A i \in DOMAIN project_plan.tasks :
            LET t      == project_plan.tasks[i]
                before == pre.plan.tasks[i]
            IN  /\ t.start_date # None
                /\ (NeedsFallback(before) /\ pre.plan.start_date # None) =>
                      /\ t.start_date = pre.plan.start_date
                      /\ t.duration # None =>
                            t.end_date =
                              Some(add_working_days(Val(pre.plan.start_date),
                                                    Val(t.duration) - 1,
                                                    project_plan.working_days))

(* a task with a duration only took the plan's start date, which is not    *)
(* today's date, and got its end date from it                              *)
C23_Witness ==
    /\ CalcReturned
    /\ pre.plan.start_date # None
    /\ pre.plan.start_date # Some(today)
    /\ \E i \in DOMAIN project_plan.tasks :
          /\ NeedsFallback(pre.plan.tasks[i])
          /\ pre.plan.tasks[i].duration # None
          /\ Val(pre.plan.tasks[i].duration) >= 2
          /\ project_plan.tasks[i].start_date = pre.plan.start_date
          /\ project_plan.tasks[i].end_date # project_plan.tasks[i].start_date

-----------------------------------------------------------------------------
(* The calendar functions *)

(* the working days of wd among the dates a .. b *)
WorkingDaysIn(a, b, wd) == { x \in a .. b : weekday(x) \in wd }

(* C24: _add_working_days(d, 0) is d; for n >= 1 and a working-day set     *)
(* that is not empty the result r is a working day later than d and        *)
(* exactly n working days lie in (d, r]; _count_working_days(s, e) is 0    *)
(* when s > e and otherwise the number of working days in [s, e].          *)
C24_CalendarFunctions ==
    /\ (cal.op \in {"added", "subtracted"} /\ cal.days = 0) =>
          cal.added = cal.start_date
    /\ (cal.op \in {"added", "subtracted"} /\ cal.days >= 1) =>
          /\ cal.added > cal.start_date
          /\ weekday(cal.added) \in cal.wd
          /\ Cardinality(WorkingDaysIn(cal.start_date + 1, cal.added, cal.wd))
                = cal.days
    /\ cal.op = "counted" =>
          cal.count = IF cal.start_date > cal.end_date THEN 0
                      ELSE Cardinality(WorkingDaysIn(cal.start_date,
                                                     cal.end_date, cal.wd))

(* working days were counted over a span that holds a weekend *)
C24_Witness ==
    /\ cal.op = "counted"
    /\ cal.wd = MonFri
    /\ cal.start_date <= 4
    /\ cal.end_date = MaxCalDate
    /\ cal.count = Cardinality(WorkingDaysIn(cal.start_date, cal.end_date, cal.wd))
    /\ cal.count < cal.end_date - cal.start_date + 1

-----------------------------------------------------------------------------
(* Task construction: Task(duration=..., is_milestone=...) and the         *)
(* assignments task.duration = ..., task.is_milestone = ... with           *)
(* Config.validate_assignment (models.py lines 18-76)                      *)

(* lines 48-53.  values holds the fields validated before duration: at     *)
(* construction is_milestone, declared after duration (lines 30-37), is    *)
(* not among them and values.get('is_milestone') is None; on assignment    *)
(* values holds every other field of the object.  v is the Optional        *)
(* duration: the validator runs on None as well, and None != 0.            *)
validate_milestone_duration(v, values) ==
    IF values.is_milestone = Some(TRUE) /\ v # Some(0) THEN "ValueError" ELSE "ok"

(* lines 30-34 and 48-53: Optional[int] with ge=0, then the validator; a   *)
(* ValueError of the validator is reported as pydantic's ValidationError   *)
validate_duration(v, values) ==
    IF v # None /\ Val(v) < 0 THEN "ValidationError"
    ELSE IF validate_milestone_duration(v, values) # "ok"
         THEN "ValidationError"
    ELSE "ok"

MaxAssign == 2       \* assignments made to one task

(* the durations a caller passes: none, one below ge=0, zero, positive *)
DurationArgs == { None, Some(-1), Some(0), Some(1), Some(2) }

(* Task(id=..., name=..., duration=built.duration,                         *)
(*      is_milestone=built.is_milestone)                                   *)
ConstructTask ==
    /\ pc = "task"
    /\ built.op = "input"
    /\ built' = IF validate_duration(built.duration, [is_milestone |-> None]) = "ok"
                THEN [built EXCEPT !.op = "constructed"]
                ELSE [built EXCEPT !.op = "ValidationError"]
    /\ UNCHANGED << project_plan, in_degree, temp_in_degree, pc, queue,
                    processed_tasks, popped, errors, result, pre, today, calls,
                    critical, cal, stats >>

(* task.duration = v: validated against the object's other fields, and a   *)
(* rejected value leaves the task as it was                                *)
AssignDuration ==
    /\ pc = "task"
    /\ built.op \notin {"input", "ValidationError"}
    /\ built.n < MaxAssign
    /\ \E v \in DurationArgs :
          built' = IF validate_duration(v, [is_milestone |->
                                              Some(built.is_milestone)]) = "ok"
                   THEN [built EXCEPT !.op = "assigned", !.duration = v,
                                      !.value = v, !.n = @ + 1]
                   ELSE [built EXCEPT !.op = "assign ValidationError",
                                      !.value = v, !.n = @ + 1]
    /\ UNCHANGED << project_plan, in_degree, temp_in_degree, pc, queue,
                    processed_tasks, popped, errors, result, pre, today, calls,
                    critical, cal, stats >>

(* task.is_milestone = b: the field has no validator of its own *)
AssignMilestone ==
    /\ pc = "task"
    /\ built.op \notin {"input", "ValidationError"}
    /\ built.n < MaxAssign
    /\ \E b \in BOOLEAN :
          built' = [built EXCEPT !.op = "milestone assigned",
                                 !.is_milestone = b, !.n = @ + 1]
    /\ UNCHANGED << project_plan, in_degree, temp_in_degree, pc, queue,
                    processed_tasks, popped, errors, result, pre, today, calls,
                    critical, cal, stats >>

InitTask ==
    /\ built \in [op : {"input"}, duration : DurationArgs,
                  is_milestone : BOOLEAN, value : { None }, n : {0}]
    /\ project_plan = Plan(<< >>, None, MonFri)
    /\ pc = "task"
    /\ today = 2
    /\ in_degree = << >>
    /\ temp_in_degree = << >>
    /\ queue = << >>
    /\ processed_tasks = {}
    /\ popped = << >>
    /\ errors = << >>
    /\ result = NoResult
    /\ pre = [plan |-> project_plan, fresh |-> TRUE, scheduled |-> FALSE]
    /\ calls = 0
    /\ critical = NoCritical
    /\ cal = NoCal
    /\ stats = NoStats

NextTask == ConstructTask \/ AssignDuration \/ AssignMilestone

SpecTask == InitTask /\ [][NextTask]_vars

(* the Task object exists: the constructor returned *)
TaskExists == pc = "task" /\ built.op \notin {"input", "ValidationError"}

(* C25: a Task with is_milestone = true never holds a duration other than  *)
(* 0: the constructor rejects such a duration, and so does an assignment   *)
(* to the task.                                                            *)
C25_MilestoneZeroDuration ==
    (TaskExists /\ built.is_milestone) => built.duration \in { None, Some(0) }

(* the part that holds: task.duration = v with v other than 0, None        *)
(* included, on a task whose is_milestone is true raises the validation    *)
(* error                                                                   *)
C25_AssignmentRejected ==
    (pc = "task" /\ built.op \in {"assigned", "assign ValidationError"}
        /\ built.is_milestone /\ built.value # Some(0)) =>
       built.op = "assign ValidationError"

-----------------------------------------------------------------------------
(* Whole runs: calculate_dates and validate_plan from call to return, as   *)
(* main.py calls them one after the other on one processor                 *)

(* lines 76-101: the while loop from a queue to the return or the raise.   *)
(* Each outcome is the plan and the in-degree map the run leaves, the      *)
(* order of the pops and how the call ended; the outcomes differ by the    *)
(* order in which the dependents of a task are queued.                     *)
RECURSIVE run_loop(_, _, _, _, _, _)
run_loop(plan, q, deg, processed, pops, now) ==
    IF q = << >>
    THEN IF Cardinality(processed) # Len(plan.tasks)
         THEN { [status |-> "ValueError", plan |-> plan, in_degree |-> deg,
                 popped |-> pops, unprocessed |-> Ids(plan.tasks) \ processed] }
         ELSE { [status |-> "ok", plan |-> calculate_project_dates(plan),
                 in_degree |-> deg, popped |-> pops, unprocessed |-> {}] }
    ELSE LET task_id == Head(q) IN
         IF task_id \in processed
         THEN run_loop(plan, Tail(q), deg, processed, pops, now)
         ELSE LET s     == calculate_task_dates(task_map(plan.tasks, task_id),
                                                plan, now)
                  dated == [plan EXCEPT
                              !.tasks[IndexOf(plan.tasks, task_id)] = s.task]
              IN  IF s.exc
                  THEN { [status |-> "OverflowError", plan |-> dated,
                          in_degree |-> deg, popped |-> Append(pops, task_id),
                          unprocessed |-> {}] }
                  ELSE UNION { run_loop(dated, Tail(q) \o order,
                                        decrement_dependents(plan.tasks, deg, task_id),
                                        processed \cup {task_id},
                                        Append(pops, task_id), now) :
                                 order \in Orderings(newly_ready(plan.tasks, deg,
                                                                 task_id)) }

(* lines 58-101: calculate_dates of a processor whose in-degree map is deg *)
calculate_dates(plan, deg, now) ==
    run_loop(plan, initial_queue(plan.tasks, deg), deg, {}, << >>, now)

(* lines 234-271: the plans validate_plan can leave; its temp_processor    *)
(* works on self.project_plan itself and its errors are not raised         *)
validate_plan(plan, now) ==
    IF plan.tasks = << >> THEN { plan }
    ELSE { o.plan : o \in calculate_dates(plan, build_in_degree(plan.tasks), now) }

(* main.py lines 100-110: processor = CoreProcessor(project_plan);         *)
(* processor.validate_plan(); processor.calculate_dates()                  *)
ValidateThenCalculate ==
    /\ pc = "main"
    /\ \E validated \in validate_plan(project_plan, today) :
          \E o \in calculate_dates(validated,
                                   build_in_degree(project_plan.tasks), today) :
              /\ project_plan' = o.plan
              /\ in_degree' = o.in_degree
              /\ popped' = o.popped
              /\ processed_tasks' = Range(o.popped)
              /\ result' = [op |-> "calculate_dates", status |-> o.status,
                            unprocessed |-> o.unprocessed,
                            scheduled |-> o.status = "ok"]
    /\ pc' = "validated and calculated"
    /\ pre' = [plan |-> project_plan, fresh |-> TRUE, scheduled |-> FALSE]
    /\ calls' = 2
    /\ UNCHANGED << temp_in_degree, queue, errors, today, critical, cal, built,
                    stats >>

(* processor = CoreProcessor(project_plan); processor.calculate_dates() *)
CalculateOnly ==
    /\ pc = "main"
    /\ \E o \in calculate_dates(project_plan,
                                build_in_degree(project_plan.tasks), today) :
          /\ project_plan' = o.plan
          /\ in_degree' = o.in_degree
          /\ popped' = o.popped
          /\ processed_tasks' = Range(o.popped)
          /\ result' = [op |-> "calculate_dates", status |-> o.status,
                        unprocessed |-> o.unprocessed,
                        scheduled |-> o.status = "ok"]
    /\ pc' = "calculated"
    /\ pre' = [plan |-> project_plan, fresh |-> TRUE, scheduled |-> FALSE]
    /\ calls' = 1
    /\ UNCHANGED << temp_in_degree, queue, errors, today, critical, cal, built,
                    stats >>

InitMain ==
    /\ project_plan \in Plans
    /\ today \in IF project_plan.start_date = None THEN Todays ELSE { 2 }
    /\ in_degree = build_in_degree(project_plan.tasks)
    /\ temp_in_degree = << >>
    /\ pc = "main"
    /\ queue = << >>
    /\ processed_tasks = {}
    /\ popped = << >>
    /\ errors = << >>
    /\ result = NoResult
    /\ pre = [plan |-> project_plan, fresh |-> TRUE, scheduled |-> FALSE]
    /\ calls = 0
    /\ critical = NoCritical
    /\ cal = NoCal
    /\ built = NoBuilt
    /\ stats = NoStats

NextMain == ValidateThenCalculate \/ CalculateOnly

SpecMain == InitMain /\ [][NextMain]_vars

(* the step-by-step run and the whole run agree: what a calculate_dates    *)
(* call of Spec leaves on a newly built processor is an outcome of         *)
(* calculate_dates on the plan at the call (the in-degree map until a new  *)
(* processor is built)                                                     *)
WholeRunAgrees ==
    (pc = "idle" /\ result.op = "calculate_dates" /\ pre.fresh) =>
        \E o \in calculate_dates(pre.plan, build_in_degree(pre.plan.tasks), today) :
            /\ o.plan = project_plan
            /\ in_degree \in { o.in_degree, build_in_degree(project_plan.tasks) }
            /\ o.popped = popped
            /\ o.status = result.status
            /\ o.unprocessed = result.unprocessed

(* the tasks of the two plans carry the same dates and durations *)
SameSchedule(p, q) ==
    /\ Len(p.tasks) = Len(q.tasks)
    /\ \A i \in DOMAIN p.tasks :
          /\ p.tasks[i].id = q.tasks[i].id
          /\ SameDates(p.tasks[i], q.tasks[i])

(* C26: for an acyclic plan, validate_plan followed by calculate_dates     *)
(* leaves every task with the start_date, end_date and duration that       *)
(* calculate_dates alone leaves on an identical copy of the plan.          *)
C26_ValidateFirstSameSchedule ==
    (pc = "validated and calculated" /\ Acyclic(pre.plan.tasks)
        /\ result.status = "ok") =>
        \E o \in calculate_dates(pre.plan, build_in_degree(pre.plan.tasks), today) :
            o.status = "ok" /\ SameSchedule(project_plan, o.plan)

(* the same statement for the plans in which every task comes with a       *)
(* duration and without an end_date: a second derivation repeats the first *)
C26_SameScheduleGivenDurations ==
    (pc = "validated and calculated" /\ Acyclic(pre.plan.tasks)
        /\ result.status = "ok"
        /\ \A i \in DOMAIN pre.plan.tasks :
              /\ pre.plan.tasks[i].duration # None
              /\ pre.plan.tasks[i].end_date = None) =>
        \E o \in calculate_dates(pre.plan, build_in_degree(pre.plan.tasks), today) :
            o.status = "ok" /\ SameSchedule(project_plan, o.plan)

-----------------------------------------------------------------------------
(* Repeated runs on a plan with a cycle *)

(* C27: on a plan with a dependency cycle every calculate_dates call on    *)
(* one processor, the first and any later one, raises the cycle error and  *)
(* processes no task that lies on a cycle.                                 *)
C27_CycleErrorEveryCall ==
    (pc = "idle" /\ result.op = "calculate_dates"
        /\ ~ Acyclic(project_plan.tasks)) =>
       /\ result.status = "ValueError"
       /\ \A i \in DOMAIN popped : ~ OnCycle(project_plan.tasks, popped[i])

(* the same statement for the calls that start from the in-degree map      *)
(* counting each task's dependencies                                       *)
C27_CycleErrorFirstCall ==
    (pc = "idle" /\ result.op = "calculate_dates" /\ pre.fresh
        /\ ~ Acyclic(project_plan.tasks)) =>
       /\ result.status = "ValueError"
       /\ \A i \in DOMAIN popped : ~ OnCycle(project_plan.tasks, popped[i])

-----------------------------------------------------------------------------
(* Critical path of a chain *)

(* the plan is one chain: the tasks can be put in a row in which the first *)
(* depends on nothing and every other one on the task before it, only      *)
IsChainIn(tasks, row) ==
    /\ Len(row) = Len(tasks)
    /\ \A k \in DOMAIN row :
          dependency_graph(tasks, row[k]) = IF k = 1 THEN {} ELSE { row[k - 1] }
    /\ \A k \in DOMAIN row : Len(task_map(tasks, row[k]).dependencies) <= 1

IsChain(tasks) ==
    /\ tasks # << >>
    /\ Cardinality(Ids(tasks)) = Len(tasks)
    /\ \E row \in Orderings(Ids(tasks)) : IsChainIn(tasks, row)

(* the first task of the chain: the one that depends on nothing *)
ChainHead(tasks) ==
    CHOOSE t \in Range(tasks) : t.dependencies = << >>

(* calculate_dates returned for a chain whose first task starts on a       *)
(* working day, and get_critical_path was called on the same processor     *)
ChainCriticalPathCalled ==
    /\ CalcReturned
    /\ pre.fresh
    /\ critical # NoCritical
    /\ IsChain(project_plan.tasks)
    /\ weekday(Val(ChainHead(project_plan.tasks).start_date))
          \in project_plan.working_days

(* C28: for a plan that is one dependency chain, scheduled by              *)
(* calculate_dates with its first task starting on a working day,          *)
(* get_critical_path returns all the tasks, also when a task that is not   *)
(* the last has duration 0.                                                *)
C28_ChainAllCritical ==
    ChainCriticalPathCalled =>
       /\ critical.status = "ok"
       /\ Range(critical.path) = Ids(project_plan.tasks)

(* the same statement for the chains listed first task first in which      *)
(* every task came with a duration of at least one day and no end_date     *)
C28_ChainAllCriticalPositiveDurations ==
    (ChainCriticalPathCalled
        /\ ListedAfterDependencies(project_plan.tasks)
        /\ \A i \in DOMAIN pre.plan.tasks :
              /\ pre.plan.tasks[i].duration # None
              /\ pre.plan.tasks[i].end_date = None
              /\ Val(pre.plan.tasks[i].duration) >= 1
              /\ ~ pre.plan.tasks[i].is_milestone) =>
       /\ critical.status = "ok"
       /\ Range(critical.path) = Ids(project_plan.tasks)

-----------------------------------------------------------------------------
(* Start before end *)

StartNotAfterEnd(x) ==
    (x.start_date # None /\ x.end_date # None) =>
        Val(x.start_date) <= Val(x.end_date)

(* C29: after calculate_dates succeeds, every task that has both dates has *)
(* start_date <= end_date, and so has the plan, for every input            *)
(* combination of start, end, duration and dependencies.                   *)
C29_StartNotAfterEnd ==
    CalcReturned =>
       /\ \A i \in DOMAIN project_plan.tasks :
             StartNotAfterEnd(project_plan.tasks[i])
       /\ StartNotAfterEnd(project_plan)

(* the same statement for the tasks that came with a duration: their end   *)
(* date is computed from their start date                                  *)
C29_StartNotAfterEndGivenDuration ==
    CalcReturned =>
        \A i \in DOMAIN project_plan.tasks :
            force_milestone(pre.plan.tasks[i]).duration # None =>
                StartNotAfterEnd(project_plan.tasks[i])

-----------------------------------------------------------------------------
(* Order independence *)

(* the one-to-one maps of 1 .. n onto itself *)
Bijections(n) ==
    { f \in [1 .. n -> 1 .. n] : \A i, j \in 1 .. n : f[i] = f[j] => i = j }

(* the rearrangements of the sequence s *)
Rearranged(s) == { [ i \in DOMAIN s |-> s[f[i]] ] : f \in Bijections(Len(s)) }

(* the lists with the tasks of tasks, each with its dependencies in any    *)
(* order, in every order                                                   *)
RECURSIVE WithRearrangedDependencies(_)
WithRearrangedDependencies(tasks) ==
    IF tasks = << >> THEN { << >> }
    ELSE { << [Head(tasks) EXCEPT !.dependencies = deps] >> \o rest :
             deps \in Rearranged(Head(tasks).dependencies),
             rest \in WithRearrangedDependencies(Tail(tasks)) }

PermutedPlans(plan) ==
    { [plan EXCEPT !.tasks = tasks] :
        tasks \in UNION { Rearranged(t) : t \in WithRearrangedDependencies(plan.tasks) } }

(* C30: for an acyclic plan with a fixed plan start_date and working_days, *)
(* calculate_dates on a new processor ends the same way and gives every    *)
(* task the same start_date, end_date and duration for every order of      *)
(* plan.tasks and every order of the ids in a task's dependencies.         *)
C30_OrderIndependence ==
    (pc = "calculated" /\ Acyclic(pre.plan.tasks)) =>
        \A other \in PermutedPlans(pre.plan) :
            \A o \in calculate_dates(other, build_in_degree(other.tasks), today) :
                /\ o.status = result.status
                /\ o.status = "ok" =>
                      \A id \in Ids(project_plan.tasks) :
                          SameDates(task_map(o.plan.tasks, id),
                                    task_map(project_plan.tasks, id))

(* a scheduled task has two dependencies that end on different days, and   *)
(* the list names a task before one it depends on                          *)
C30_Witness ==
    /\ pc = "calculated"
    /\ result.status = "ok"
    /\ Acyclic(pre.plan.tasks)
    /\ ~ ListedAfterDependencies(project_plan.tasks)
    /\ \E i \in DOMAIN project_plan.tasks :
          LET t == project_plan.tasks[i] IN
          /\ Len(t.dependencies) = 2
          /\ Cardinality(DependencyEnds(t, project_plan.tasks)) = 2
          /\ t.start_date =
                Some(add_working_days(SetMax(DependencyEnds(t, project_plan.tasks)),
                                      1, project_plan.working_days))

-----------------------------------------------------------------------------
(* What a run resolves *)

(* C9, amended: after a successful run every task has a start_date; every  *)
(* task that entered the run as a milestone, with a duration, or with both *)
(* a start_date and an end_date has start_date, end_date and duration;     *)
(* every other task keeps the end_date it entered with, and has a duration *)
(* exactly when it entered with an end_date and one of its dependencies    *)
(* had an end_date when it was popped.                                     *)
C9_ResolvedAsDerivable ==
    (pc = "idle" /\ result.scheduled) =>
       /\ Range(popped) = Ids(project_plan.tasks)
       /\ \A k \in DOMAIN popped :
             LET t == task_map(project_plan.tasks, popped[k])
                 u == task_map(pre.plan.tasks, popped[k])
             IN  /\ t.start_date # None
                 /\ TwoKnown(u) => (t.end_date # None /\ t.duration # None)
                 /\ ~ TwoKnown(u) =>
                       /\ t.end_date = u.end_date
                       /\ t.duration # None <=>
                             (u.end_date # None /\ EndsAtPop(k) # {})

(* C9's cases: a task that came with an end_date only and no dependency    *)
(* leaves the run without a duration, and a task that came with an         *)
(* end_date only and depends on a dated task has its duration derived      *)
C9_WitnessEndOnly ==
    /\ CalcReturned
    /\ \E k \in DOMAIN popped :
          LET t == task_map(project_plan.tasks, popped[k])
              u == task_map(pre.plan.tasks, popped[k])
          IN  /\ ~ TwoKnown(u) /\ u.end_date # None /\ u.start_date = None
              /\ u.dependencies = << >>
              /\ t.start_date # None /\ t.duration = None
    /\ \E k \in DOMAIN popped :
          LET t == task_map(project_plan.tasks, popped[k])
              u == task_map(pre.plan.tasks, popped[k])
          IN  /\ ~ TwoKnown(u) /\ u.end_date # None /\ EndsAtPop(k) # {}
              /\ t.duration # None /\ t.end_date = u.end_date

====
